---------------------------- MODULE Spec2Model ----------------------------
(***************************************************************************)
(* A model of bunnydo (src/index.js): a client-side pattern layer (worker  *)
(* queues, RPC, fanout pub/sub) over one AMQP channel.                     *)
(*                                                                         *)
(* The client object's fields (queues, rpcCB, exBindings, ch) are the      *)
(* state; the broker behind the channel is modelled by the queues it       *)
(* holds, their consumers and the messages in them.  Every promise the     *)
(* channel returns resolves in a later step, fulfilled or rejected, so     *)
(* calls interleave exactly where the event loop lets them.                *)
(***************************************************************************)
EXTENDS Integers, Sequences, FiniteSets, TLC

(***************************************************************************)
(* Bounds of the model.                                                    *)
(***************************************************************************)
MaxCalls == 3        \* pattern calls made on the client
MaxRpc == 2          \* rpc calls made where replies are followed
MaxForeign == 2      \* messages other producers publish
MaxReplyCalls == 2   \* replyFn calls a server handler makes per request
MaxLen == 2          \* elements of the arrays given to toAMQPMessage

(***************************************************************************)
(* JavaScript values.  Text is a string; a Buffer holds the text of its    *)
(* bytes.                                                                  *)
(***************************************************************************)
Undefined == [t |-> "undefined"]
Null == [t |-> "null"]
Num(n) == [t |-> "number", n |-> n]
Bool(b) == [t |-> "boolean", b |-> b]
Str(s) == [t |-> "string", s |-> s]
Obj(kv) == [t |-> "object", kv |-> kv]
Arr(items) == [t |-> "array", items |-> items]
Buf(text) == [t |-> "buffer", text |-> text]
\* an object that refers to itself: JSON.stringify raises on it
Cyclic == [t |-> "cyclic"]
\* the outcome of an evaluation that raised an exception
Throw == [t |-> "throw"]
NoValue == [t |-> "none"]

ObjX5 == Obj(<<[k |-> "x", v |-> Num(5)]>>)
Arr12 == Arr(<<Num(1), Num(2)>>)
Obj01 == Obj(<<[k |-> "0", v |-> Num(1)], [k |-> "1", v |-> Num(2)]>>)

\* typeof
TypeOf(v) ==
  CASE v.t \in {"null", "object", "array", "buffer", "cyclic"} -> "object"
    [] OTHER -> v.t

\* the bytes of the buffers the model passes as messages
Utf8(text) ==
  CASE text = "hi" -> <<104, 105>>
    [] OTHER -> <<>>

\* Object.keys(src) with the values under them, for a non-null object
OwnEntries(src) ==
  CASE src.t = "object" -> src.kv
    [] src.t = "array" ->
         [i \in 1..Len(src.items) |-> [k |-> ToString(i - 1), v |-> src.items[i]]]
    [] src.t = "buffer" ->
         [i \in 1..Len(Utf8(src.text)) |->
            [k |-> ToString(i - 1), v |-> Num(Utf8(src.text)[i])]]
    [] src.t = "cyclic" -> <<[k |-> "self", v |-> Cyclic]>>

\* copy (a shallow copy into a fresh plain object; Object.keys(null) raises)
copy(src) ==
  IF TypeOf(src) = "object"
    THEN IF src.t = "null" THEN Throw ELSE Obj(OwnEntries(src))
    ELSE src

(***************************************************************************)
(* JSON.stringify and JSON.parse.  Stringify builds the text; parse is its *)
(* inverse on the JSON values of the model and raises on any other text.   *)
(***************************************************************************)
RECURSIVE JSONText(_)
RECURSIVE JoinItems(_, _)
RECURSIVE JoinEntries(_, _)

\* the items of an array from index i on, comma-separated
JoinItems(items, i) ==
  IF i > Len(items) THEN ""
  ELSE LET e == IF items[i].t = "undefined" THEN "null" ELSE JSONText(items[i])
       IN e \o (IF i < Len(items) THEN "," ELSE "") \o JoinItems(items, i + 1)

\* the entries of an object from index i on; undefined values are left out
JoinEntries(kv, i) ==
  IF i > Len(kv) THEN ""
  ELSE LET rest == JoinEntries(kv, i + 1)
       IN IF kv[i].v.t = "undefined" THEN rest
          ELSE "\"" \o kv[i].k \o "\":" \o JSONText(kv[i].v)
               \o (IF rest = "" THEN "" ELSE ",") \o rest

JSONText(v) ==
  CASE v.t = "null" -> "null"
    [] v.t = "number" -> ToString(v.n)
    [] v.t = "boolean" -> IF v.b THEN "true" ELSE "false"
    [] v.t = "string" -> "\"" \o v.s \o "\""
    [] v.t = "array" -> "[" \o JoinItems(v.items, 1) \o "]"
    [] v.t = "object" -> "{" \o JoinEntries(v.kv, 1) \o "}"
    [] OTHER -> ""

RECURSIVE HasCycle(_)
HasCycle(v) ==
  CASE v.t = "cyclic" -> TRUE
    [] v.t = "object" -> \E i \in 1..Len(v.kv) : HasCycle(v.kv[i].v)
    [] v.t = "array" -> \E i \in 1..Len(v.items) : HasCycle(v.items[i])
    [] OTHER -> FALSE

\* JSON.stringify(v): a string value, or Throw (a circular structure)
JSONStringify(v) == IF HasCycle(v) THEN Throw ELSE Str(JSONText(v))

\* the arrays of at most MaxLen elements, each 1 or null
Leaves == {Num(1), Null}
CodecArrays ==
  UNION {{Arr(items) : items \in [1..n -> Leaves]} : n \in 0..MaxLen}

\* the plain objects with at most one key
PlainObjects(values) ==
  {Obj(<<>>)} \cup {Obj(<<[k |-> key, v |-> v]>>) : key \in {"x", "a"}, v \in values}

JSONScalars ==
  {Null, Num(1), Num(2), Num(5), Bool(TRUE), Bool(FALSE), Str("fire")}

\* the JSON values whose texts occur in the model: scalars, arrays, plain
\* objects, and the objects copy makes of arrays and Buffers
JSONUniverse ==
  JSONScalars \cup CodecArrays \cup {Arr12}
    \cup PlainObjects(JSONScalars \cup CodecArrays \cup {Arr12})
    \cup {copy(a) : a \in CodecArrays \cup {Arr12}}
    \cup {Obj(<<[k |-> "0", v |-> Num(104)], [k |-> "1", v |-> Num(105)]>>)}

\* the value each JSON text of the model stands for
JSONValueOf ==
  [text \in {JSONText(u) : u \in JSONUniverse} |->
     CHOOSE u \in JSONUniverse : JSONText(u) = text]

\* JSON.parse(text): the value, or Throw (a SyntaxError)
JSONParse(text) ==
  IF text \in DOMAIN JSONValueOf THEN JSONValueOf[text] ELSE Throw

\* v.toString() for a value that is not a string
ToText(v) ==
  CASE v.t = "number" -> Str(ToString(v.n))
    [] v.t = "boolean" -> Str(IF v.b THEN "true" ELSE "false")
    [] v.t \in {"object", "cyclic"} -> Str("[object Object]")
    [] v.t = "buffer" -> Str(v.text)
    [] OTHER -> Throw      \* undefined and null have no toString

(***************************************************************************)
(* toAMQPMessage: a Buffer, or Throw.                                      *)
(***************************************************************************)
toAMQPMessage(message) ==
  LET c0 == copy(message)
      \* lines 208-214: stringify a non-Buffer object; a raise is swallowed
      c1 == IF c0 = Throw THEN Throw
            ELSE IF TypeOf(c0) = "object" /\ c0.t # "buffer"
              THEN (IF JSONStringify(c0) = Throw THEN c0 ELSE JSONStringify(c0))
              ELSE c0
      \* lines 216-218
      c2 == IF c1 = Throw THEN Throw
            ELSE IF TypeOf(c1) # "string" THEN ToText(c1) ELSE c1
  IN  \* lines 220-222
      IF c2 = Throw THEN Throw ELSE Buf(c2.s)

(***************************************************************************)
(* A delivered message: its content (the text of the content Buffer) and   *)
(* its properties.  NoId and NoQueue stand for an absent correlationId and *)
(* replyTo.                                                                *)
(***************************************************************************)
NoId == 0
NoQueue == ""
Msg(content, corrId, replyTo) ==
  [content |-> content, correlationId |-> corrId, replyTo |-> replyTo]

\* fromAMQPMessage of a delivered message: the parsed content, or its text
\* when it is not JSON
fromAMQPMessage(message) ==
  LET obj == message.content
  IN  IF JSONParse(obj) = Throw THEN Str(obj) ELSE JSONParse(obj)


(***************************************************************************)
(* Names.  A queue name of the application, the process id, and the names  *)
(* the client derives from them.                                           *)
(***************************************************************************)
QueueNames == {"echo", "jobs"}
Pid == "1"
\* line 163: queue + '_rpc_queue_' + process.pid
RpcQueueName(queue) == queue \o "_rpc_queue_" \o Pid
ExchangeNames == {"alerts"}
\* line 512: exchange + '_queue_' + process.pid
PubsubQueueName(exchange) == exchange \o "_queue_" \o Pid
AllQueues ==
  QueueNames \cup {RpcQueueName(q) : q \in QueueNames}
             \cup {PubsubQueueName(e) : e \in ExchangeNames}

\* the values the application passes as messages
MsgValues == {ObjX5, Arr12, Undefined}
\* options.autoDeleteCallback as the application passes it to rpc()
AutoDeleteOptions == {"unset", "true", "false"}
\* the server's handler: (err, data, reply) => reply(data), or one that
\* calls reply() with no response
Handlers == {"echo", "empty"}

CorrIds == 1..MaxCalls

\* an absent entry of this.queues / this.exBindings, and of this.rpcCB
Absent == [queue |-> NoQueue]
NoCB == [cb |-> 0, autoDelete |-> FALSE]
NullCh == [open |-> FALSE, prefetch |-> 0]
\* no value is on its way through the codec
NoCodec == [pc |-> "idle", value |-> NoValue, payload |-> NoValue,
            decoded |-> NoValue]

VARIABLES
  ch,           \* this.ch: the channel, NullCh before init
  queues,       \* this.queues: logical name -> descriptor
  rpcCB,        \* this.rpcCB: correlation id -> {cb, autoDelete}
  exBindings,   \* this.exBindings: exchange -> descriptor of the bound queue
  uuids,        \* how many ids uuid() has produced
  calls,        \* the pattern calls made so far, each with its position
  declared,     \* queue -> declarations the broker granted this client
  brokerQueues, \* the queues that exist on the broker
  consumers,    \* the client's subscriptions: <<[queue, handler, call]>>
  mq,           \* queue -> the messages waiting in it
  server,       \* the onRpc registration of the serving process
  reqs,         \* the requests delivered to the onRpc consumer, each with
                \* the state of its replyFn closure
  seen,         \* correlation id -> replies handed to rpcHandler with it
  produced,     \* how many messages other producers have published
  exchanges,    \* the exchanges that exist on the broker
  bindings,     \* the broker's bindings: <<queue, exchange>>
  codec         \* a value on its way through toAMQPMessage and fromAMQPMessage

vars == <<ch, queues, rpcCB, exBindings, uuids, calls, declared, brokerQueues,
          consumers, mq, server, reqs, seen, produced,
          exchanges, bindings, codec>>

Init ==
  /\ ch = NullCh
  /\ queues = [q \in QueueNames |-> Absent]
  /\ rpcCB = [c \in CorrIds |-> NoCB]
  /\ exBindings = [e \in ExchangeNames |-> Absent]
  /\ uuids = 0
  /\ calls = << >>
  /\ declared = [q \in AllQueues |-> 0]
  /\ brokerQueues = {}
  /\ consumers = << >>
  /\ mq = [q \in AllQueues |-> << >>]
  /\ server = [queue |-> NoQueue, handler |-> "echo"]
  /\ reqs = << >>
  /\ seen = [c \in CorrIds |-> 0]
  /\ produced = 0
  /\ exchanges = {}
  /\ bindings = {}
  /\ codec = NoCodec

\* init: connect, create the channel, prefetch(1)
init ==
  /\ ch = NullCh
  /\ ch' = [open |-> TRUE, prefetch |-> 1]
  /\ UNCHANGED <<queues, rpcCB, exBindings, uuids, calls, declared,
                 brokerQueues, consumers, mq, server, reqs, seen,
                 produced, exchanges, bindings, codec>>

\* a generator that repeats itself
uuidRepeats(n) == 1

\* uuid(): the next fresh id, given how many were produced
uuid(n) == n + 1

\* a message published to a queue through the default exchange: it is
\* dropped when no such queue exists
Publish(m, queue, msg) ==
  IF queue \in brokerQueues THEN [m EXCEPT ![queue] = Append(@, msg)] ELSE m

\* a call record as the call is made
NewCall(op, name, msg, ad) ==
  [op |-> op, name |-> name, msg |-> msg, ad |-> ad, pc |-> "start",
   corrId |-> NoId, cbOk |-> 0, cbErr |-> 0, reply |-> NoValue,
   published |-> FALSE, declaredAtSend |-> FALSE, overlapped |-> FALSE,
   reused |-> FALSE, unregistered |-> FALSE]

\* a setup (declare, subscribe) of an earlier call for this name is in flight
SetupInFlight(name) ==
  \E k \in 1..Len(calls) :
    /\ calls[k].name = name
    /\ calls[k].op \in {"rpc", "addRpcQueue"}
    /\ calls[k].pc \in {"declare", "consume"}

\* rpc sets autoDelete = true unless the option is a boolean (lines 374-377)
AutoDeleteOf(ad) == IF ad = "false" THEN FALSE ELSE TRUE

\* the entry dorpc stores under corrId (lines 379-384)
Register(table, corrId, k, ad) ==
  [table EXCEPT ![corrId] = [cb |-> k, autoDelete |-> AutoDeleteOf(ad)]]

\* the callback dorpc gives to send (lines 386-391), run with err
sendDone(table, corrId, err) ==
  IF err THEN [table EXCEPT ![corrId] = NoCB] ELSE table

\* dorpc(replyTo) for call record c at index k: the new table, queues of
\* messages, id count and call record
dorpc(c, k, replyTo) ==
  LET corrId == uuid(uuids)
      data == toAMQPMessage(c.msg)
      threw == data = Throw
      registered == Register(rpcCB, corrId, k, c.ad)
  IN \* send (lines 301-305) raises before it calls back, or calls back
     \* with no error
     [rpcCB |-> IF threw THEN registered
                ELSE sendDone(registered, corrId, FALSE),
      uuids |-> uuids + 1,
      mq |-> IF threw THEN mq
             ELSE Publish(mq, c.name, Msg(data.text, corrId, replyTo)),
      call |-> [c EXCEPT !.corrId = corrId,
                         !.pc = IF threw THEN "threw" ELSE "sent",
                         !.published = ~threw]]

\* a cache test that compares the descriptor with the logical name
CacheHitByName(queue) ==
  /\ queues[queue] # Absent
  /\ queues[queue].queue = queue

\* line 165: the cached descriptor is this name's reply queue
CacheHit(queue) ==
  /\ queues[queue] # Absent
  /\ queues[queue].queue # NoQueue
  /\ queues[queue].queue = RpcQueueName(queue)

\* rpc(queue, message, options, fn)
rpc(queue, message, ad) ==
  /\ ch.open
  /\ Len(calls) < MaxCalls
  /\ LET k == Len(calls) + 1
         c == [NewCall("rpc", queue, message, ad) EXCEPT
                 !.overlapped = SetupInFlight(queue)]
     IN IF CacheHit(queue)
          THEN LET r == dorpc([c EXCEPT !.reused = TRUE], k, queues[queue].queue)
               IN /\ rpcCB' = r.rpcCB
                  /\ uuids' = r.uuids
                  /\ mq' = r.mq
                  /\ calls' = Append(calls, r.call)
          ELSE /\ calls' = Append(calls, [c EXCEPT !.pc = "declare"])
               /\ UNCHANGED <<rpcCB, uuids, mq>>
  /\ UNCHANGED <<ch, queues, exBindings, declared, brokerQueues, consumers,
                 server, reqs, seen,
                 produced, exchanges, bindings, codec>>

\* addRpcQueue(queue, fn) called by the application
addRpcQueue(queue) ==
  /\ ch.open
  /\ Len(calls) < MaxCalls
  /\ LET c == [NewCall("addRpcQueue", queue, NoValue, "unset") EXCEPT
                 !.overlapped = SetupInFlight(queue)]
     IN calls' = Append(calls,
                   IF CacheHit(queue)
                     THEN [c EXCEPT !.pc = "done", !.cbOk = 1, !.reused = TRUE]
                     ELSE [c EXCEPT !.pc = "declare"])
  /\ UNCHANGED <<ch, queues, rpcCB, exBindings, uuids, declared, brokerQueues,
                 consumers, mq, server, reqs, seen,
                 produced, exchanges, bindings, codec>>

\* the broker answers the assertQueue(inQ) of addRpcQueue (lines 170-183)
rpcQueueAsserted(k, ok) ==
  /\ k \in 1..Len(calls)
  /\ calls[k].op \in {"rpc", "addRpcQueue"}
  /\ calls[k].pc = "declare"
  /\ LET queue == calls[k].name
         inQ == RpcQueueName(queue)
     IN IF ok
          THEN /\ declared' = [declared EXCEPT ![inQ] = @ + 1]
               /\ brokerQueues' = brokerQueues \cup {inQ}
               /\ queues' = [queues EXCEPT ![queue] = [queue |-> inQ]]
               /\ calls' = [calls EXCEPT ![k].pc = "consume"]
          ELSE \* the callback gets (err, undefined) and does nothing
               /\ calls' = [calls EXCEPT ![k].pc = "lost"]
               /\ UNCHANGED <<declared, brokerQueues, queues>>
  /\ UNCHANGED <<ch, rpcCB, exBindings, uuids, consumers, mq, server, reqs,
                 seen,
                 produced, exchanges, bindings, codec>>

\* the broker answers the consume(qname, rpcHandler) of addRpcQueue
rpcQueueConsumed(k, ok) ==
  /\ k \in 1..Len(calls)
  /\ calls[k].op \in {"rpc", "addRpcQueue"}
  /\ calls[k].pc = "consume"
  /\ LET c == calls[k]
         inQ == RpcQueueName(c.name)
     IN IF ok
          THEN /\ consumers' = Append(consumers,
                     [queue |-> inQ, handler |-> "rpcHandler", call |-> k])
               /\ IF c.op = "rpc"
                    THEN LET r == dorpc(c, k, inQ)
                         IN /\ rpcCB' = r.rpcCB
                            /\ uuids' = r.uuids
                            /\ mq' = r.mq
                            /\ calls' = [calls EXCEPT ![k] = r.call]
                    ELSE /\ calls' = [calls EXCEPT ![k].pc = "done",
                                                   ![k].cbOk = @ + 1]
                         /\ UNCHANGED <<rpcCB, uuids, mq>>
          ELSE /\ calls' = [calls EXCEPT ![k].pc = "failed", ![k].cbErr = @ + 1]
               /\ UNCHANGED <<consumers, rpcCB, uuids, mq>>
  /\ UNCHANGED <<ch, queues, exBindings, declared, brokerQueues, server, reqs,
                 seen,
                 produced, exchanges, bindings, codec>>


\* send(queue, message, opts, fn) of a worker call c: the queues of messages
\* and the call record after it
send(c) ==
  LET data == toAMQPMessage(c.msg)
      threw == data = Throw
  IN [mq |-> IF threw THEN mq
             ELSE Publish(mq, c.name, Msg(data.text, NoId, NoQueue)),
      call |-> [c EXCEPT !.pc = IF threw THEN "threw" ELSE "sent",
                         !.published = ~threw,
                         !.declaredAtSend = declared[c.name] > 0,
                         !.cbOk = IF threw THEN @ ELSE @ + 1]]

\* worker(queue, message, options, fn)
worker(queue, message) ==
  /\ ch.open
  /\ Len(calls) < MaxCalls
  /\ LET c == NewCall("worker", queue, message, "unset")
     IN IF queues[queue] # Absent
          THEN LET r == send([c EXCEPT !.reused = TRUE])
               IN /\ mq' = r.mq
                  /\ calls' = Append(calls, r.call)
          ELSE /\ calls' = Append(calls, [c EXCEPT !.pc = "declare"])
               /\ UNCHANGED mq
  /\ UNCHANGED <<ch, queues, rpcCB, exBindings, uuids, declared, brokerQueues,
                 consumers, server, reqs, seen,
                 produced, exchanges, bindings, codec>>

\* addWorkerQueue(queue, fn) called by the application
addWorkerQueue(queue) ==
  /\ ch.open
  /\ Len(calls) < MaxCalls
  /\ calls' = Append(calls,
       [NewCall("addWorkerQueue", queue, NoValue, "unset") EXCEPT !.pc = "declare"])
  /\ UNCHANGED <<ch, queues, rpcCB, exBindings, uuids, declared, brokerQueues,
                 consumers, mq, server, reqs, seen,
                 produced, exchanges, bindings, codec>>

\* the broker answers the assertQueue(queue) of addWorkerQueue (lines 130-137)
workerQueueAsserted(k, ok) ==
  /\ k \in 1..Len(calls)
  /\ calls[k].op \in {"worker", "addWorkerQueue"}
  /\ calls[k].pc = "declare"
  /\ LET c == calls[k]
     IN IF ok
          THEN /\ declared' = [declared EXCEPT ![c.name] = @ + 1]
               /\ brokerQueues' = brokerQueues \cup {c.name}
               /\ queues' = [queues EXCEPT ![c.name] = [queue |-> c.name]]
               /\ IF c.op = "worker"
                    THEN \* send sees the queue declared just now
                         LET data == toAMQPMessage(c.msg)
                             threw == data = Throw
                         IN /\ mq' = IF threw THEN mq
                                     ELSE [mq EXCEPT ![c.name] =
                                             Append(@, Msg(data.text, NoId, NoQueue))]
                            /\ calls' = [calls EXCEPT
                                 ![k].pc = IF threw THEN "threw" ELSE "sent",
                                 ![k].published = ~threw,
                                 ![k].declaredAtSend = TRUE,
                                 ![k].cbOk = IF threw THEN @ ELSE @ + 1]
                    ELSE /\ calls' = [calls EXCEPT ![k].pc = "done",
                                                   ![k].cbOk = @ + 1]
                         /\ UNCHANGED mq
          ELSE /\ calls' = [calls EXCEPT ![k].pc = "failed", ![k].cbErr = @ + 1]
               /\ UNCHANGED <<declared, brokerQueues, queues, mq>>
  /\ UNCHANGED <<ch, rpcCB, exBindings, uuids, consumers, server, reqs, seen,
                 produced, exchanges, bindings, codec>>

\* deleteRpcCallback(corrId) called by the application
deleteRpcCallback(corrId) ==
  /\ rpcCB[corrId] # NoCB
  /\ rpcCB' = [rpcCB EXCEPT ![corrId] = NoCB]
  /\ calls' = [k \in 1..Len(calls) |->
                 IF calls[k].corrId = corrId
                   THEN [calls[k] EXCEPT !.unregistered = TRUE]
                   ELSE calls[k]]
  /\ UNCHANGED <<ch, queues, exBindings, uuids, declared, brokerQueues,
                 consumers, mq, server, reqs, seen,
                 produced, exchanges, bindings, codec>>

\* an rpcHandler that never deletes, and one that always does
afterDispatchKeeps(table, corrId) == table
afterDispatchDrops(table, corrId) == [table EXCEPT ![corrId] = NoCB]

\* the table after rpcHandler ran for an entry it found (lines 273-275)
afterDispatch(table, corrId) ==
  IF table[corrId].autoDelete # FALSE
    THEN [table EXCEPT ![corrId] = NoCB]
    ELSE table

\* a lookup that falls back to another pending entry when the id has none
callbackForPending(table, corrId) ==
  IF corrId = NoId THEN 0
  ELSE IF table[corrId] # NoCB THEN table[corrId].cb
  ELSE IF \E c \in CorrIds : table[c] # NoCB
    THEN table[CHOOSE c \in CorrIds : table[c] # NoCB].cb
    ELSE 0

\* the callback rpcHandler calls for corrId: the entry's cb, 0 for none
\* (lines 262-264)
callbackFor(table, corrId) ==
  IF corrId # NoId /\ table[corrId] # NoCB THEN table[corrId].cb ELSE 0

\* the broker hands the next message of a reply queue to rpcHandler (the
\* consumer is noAck: the message is gone from the queue)
rpcHandler(inQ) ==
  /\ \E i \in 1..Len(consumers) :
       consumers[i].queue = inQ /\ consumers[i].handler = "rpcHandler"
  /\ mq[inQ] # << >>
  /\ LET msg == Head(mq[inQ])
         corrId == msg.correlationId
         cb == callbackFor(rpcCB, corrId)
     IN /\ mq' = [mq EXCEPT ![inQ] = Tail(@)]
        /\ seen' = IF corrId # NoId THEN [seen EXCEPT ![corrId] = @ + 1] ELSE seen
        /\ IF cb # 0
             THEN /\ calls' = [calls EXCEPT ![cb].cbOk = @ + 1,
                                            ![cb].reply = fromAMQPMessage(msg)]
                  /\ rpcCB' = afterDispatch(rpcCB, corrId)
             ELSE \* lines 277-282: only a debug line is written
                  UNCHANGED <<calls, rpcCB>>
  /\ UNCHANGED <<ch, queues, exBindings, uuids, declared, brokerQueues,
                 consumers, server, reqs,
                 produced, exchanges, bindings, codec>>

(***************************************************************************)
(* The serving process: another client instance, with its own channel      *)
(* (prefetch 1), that called onRpc(queue, handler).                        *)
(***************************************************************************)
Prefetch == 1

\* onRpc(queue, fn) in the serving process, with how the broker answered
\* assertQueue and consume; a rejection goes to console.warn
onRpc(queue, handler, outcome) ==
  /\ server.queue = NoQueue
  /\ outcome \in {"ok", "consumeFailed"}
  /\ brokerQueues' = brokerQueues \cup {queue}
  /\ server' = IF outcome = "ok" THEN [queue |-> queue, handler |-> handler]
               ELSE server
  /\ UNCHANGED <<ch, queues, rpcCB, exBindings, uuids, calls, declared,
                 consumers, mq, reqs, seen,
                 produced, exchanges, bindings, codec>>

\* send(queue, message, options) by another process: a message with the
\* properties that producer chose arrives in the queue
foreignSend(queue, message, corrId, replyTo) ==
  /\ queue \in brokerQueues
  /\ toAMQPMessage(message) # Throw
  /\ produced < MaxForeign
  /\ produced' = produced + 1
  /\ mq' = Publish(mq, queue, Msg(toAMQPMessage(message).text, corrId, replyTo))
  /\ UNCHANGED <<ch, queues, rpcCB, exBindings, uuids, calls, declared,
                 brokerQueues, consumers, server, reqs, seen, exchanges,
                 bindings, codec>>

\* the requests delivered and not acknowledged
Unacked == {i \in 1..Len(reqs) : reqs[i].acks = 0}

\* the broker delivers the next request to the onRpc consumer (lines 468-499
\* up to the handler call): the handler gets the decoded request
deliverRequest ==
  /\ server.queue # NoQueue
  /\ mq[server.queue] # << >>
  /\ Cardinality(Unacked) < Prefetch
  /\ LET msg == Head(mq[server.queue])
     IN /\ mq' = [mq EXCEPT ![server.queue] = Tail(@)]
        /\ reqs' = Append(reqs,
             [msg |-> msg, inData |-> fromAMQPMessage(msg), ackd |-> FALSE,
              acks |-> 0, replyCalls |-> 0, sent |-> 0, threw |-> 0])
  /\ UNCHANGED <<ch, queues, rpcCB, exBindings, uuids, calls, declared,
                 brokerQueues, consumers, server, seen,
                 produced, exchanges, bindings, codec>>

\* the response the handler passes to replyFn
Response(r) == IF server.handler = "echo" THEN r.inData ELSE Undefined

\* a replyFn that asks only for the correlation id
replyFnWithoutAddress(r, response) ==
  IF r.msg.correlationId # NoId
    THEN [r EXCEPT !.replyCalls = @ + 1, !.sent = @ + 1,
                   !.acks = IF r.ackd THEN @ ELSE @ + 1, !.ackd = TRUE]
    ELSE [r EXCEPT !.replyCalls = @ + 1]

\* the closure of request r after one replyFn(response) call (lines 482-494)
replyFn(r, response) ==
  LET replyQ == r.msg.replyTo
      corrId == r.msg.correlationId
      outData == toAMQPMessage(response)
  IN IF replyQ # NoQueue /\ corrId # NoId
       THEN IF outData = Throw
              THEN [r EXCEPT !.replyCalls = @ + 1, !.threw = @ + 1]
              ELSE [r EXCEPT !.replyCalls = @ + 1, !.sent = @ + 1,
                             !.acks = IF r.ackd THEN @ ELSE @ + 1,
                             !.ackd = TRUE]
       ELSE [r EXCEPT !.replyCalls = @ + 1]

\* the handler of request i calls replyFn
reply(i) ==
  /\ i \in 1..Len(reqs)
  /\ reqs[i].replyCalls < MaxReplyCalls
  /\ LET r == reqs[i]
         r2 == replyFn(r, Response(r))
     IN /\ reqs' = [reqs EXCEPT ![i] = r2]
        /\ mq' = IF r2.sent > r.sent
                   THEN Publish(mq, r.msg.replyTo,
                          Msg(toAMQPMessage(Response(r)).text,
                              r.msg.correlationId, NoQueue))
                   ELSE mq
  /\ UNCHANGED <<ch, queues, rpcCB, exBindings, uuids, calls, declared,
                 brokerQueues, consumers, server, seen,
                 produced, exchanges, bindings, codec>>

(***************************************************************************)
(* Publish and subscribe.                                                  *)
(***************************************************************************)
\* a setup of an earlier onPubsub call for this exchange is in flight
SubscribeInFlight(exchange) ==
  \E k \in 1..Len(calls) :
    /\ calls[k].name = exchange
    /\ calls[k].op = "onPubsub"
    /\ calls[k].pc \in {"assertExchange", "assertQueue", "bind", "consume"}

\* onPubsub(exchange, fn): assertExchange is sent (line 524)
onPubsub(exchange) ==
  /\ ch.open
  /\ Len(calls) < MaxCalls
  /\ calls' = Append(calls,
       [NewCall("onPubsub", exchange, NoValue, "unset") EXCEPT
          !.pc = "assertExchange", !.overlapped = SubscribeInFlight(exchange)])
  /\ UNCHANGED <<ch, queues, rpcCB, exBindings, uuids, declared, brokerQueues,
                 consumers, mq, server, reqs, seen, produced, exchanges,
                 bindings, codec>>

\* pubsub(exchange, message, options, fn): assertExchange is sent (line 421)
pubsub(exchange, message) ==
  /\ ch.open
  /\ Len(calls) < MaxCalls
  /\ calls' = Append(calls,
       [NewCall("pubsub", exchange, message, "unset") EXCEPT
          !.pc = "assertExchange"])
  /\ UNCHANGED <<ch, queues, rpcCB, exBindings, uuids, declared, brokerQueues,
                 consumers, mq, server, reqs, seen, produced, exchanges,
                 bindings, codec>>

\* a message published to a fanout exchange: a copy to every bound queue
Fanout(m, exchange, msg) ==
  [q \in AllQueues |->
     IF <<q, exchange>> \in bindings THEN Append(m[q], msg) ELSE m[q]]

\* the broker answers the assertExchange of pubsub (lines 422-430) or of
\* onPubsub (lines 526-528)
exchangeAsserted(k, ok) ==
  /\ k \in 1..Len(calls)
  /\ calls[k].op \in {"pubsub", "onPubsub"}
  /\ calls[k].pc = "assertExchange"
  /\ LET c == calls[k]
         data == toAMQPMessage(c.msg)
     IN IF ~ok
          THEN \* pubsub: fn(err); onPubsub: console.warn
               /\ calls' = [calls EXCEPT ![k].pc = "failed",
                              ![k].cbErr = IF c.op = "pubsub" THEN @ + 1 ELSE @]
               /\ UNCHANGED <<exchanges, mq>>
          ELSE /\ exchanges' = exchanges \cup {c.name}
               /\ IF c.op = "onPubsub"
                    THEN /\ calls' = [calls EXCEPT ![k].pc = "assertQueue"]
                         /\ UNCHANGED mq
                    ELSE IF data = Throw
                      THEN /\ calls' = [calls EXCEPT ![k].pc = "threw"]
                           /\ UNCHANGED mq
                      ELSE /\ mq' = Fanout(mq, c.name, Msg(data.text, NoId, NoQueue))
                           /\ calls' = [calls EXCEPT ![k].pc = "sent",
                                                     ![k].published = TRUE,
                                                     ![k].cbOk = @ + 1]
  /\ UNCHANGED <<ch, queues, rpcCB, exBindings, uuids, declared, brokerQueues,
                 consumers, server, reqs, seen, produced, bindings, codec>>

\* line 531: a binding is recorded for the exchange and it is this
\* process's queue
Bound(exchange) ==
  ~(exBindings[exchange] = Absent
      \/ exBindings[exchange].queue # PubsubQueueName(exchange))

\* the broker answers the assertQueue(exq) of onPubsub (lines 530-541)
subscribeQueueAsserted(k, ok) ==
  /\ k \in 1..Len(calls)
  /\ calls[k].op = "onPubsub"
  /\ calls[k].pc = "assertQueue"
  /\ LET exq == PubsubQueueName(calls[k].name)
     IN IF ok
          THEN /\ declared' = [declared EXCEPT ![exq] = @ + 1]
               /\ brokerQueues' = brokerQueues \cup {exq}
               /\ calls' = [calls EXCEPT ![k].pc =
                              IF Bound(calls[k].name) THEN "consume" ELSE "bind",
                            ![k].reused = Bound(calls[k].name)]
          ELSE /\ calls' = [calls EXCEPT ![k].pc = "failed"]
               /\ UNCHANGED <<declared, brokerQueues>>
  /\ UNCHANGED <<ch, queues, rpcCB, exBindings, uuids, consumers, mq, server,
                 reqs, seen, produced, exchanges, bindings, codec>>

\* the broker answers the bindQueue of onPubsub (lines 532-536)
queueBound(k, ok) ==
  /\ k \in 1..Len(calls)
  /\ calls[k].op = "onPubsub"
  /\ calls[k].pc = "bind"
  /\ LET exchange == calls[k].name
         exq == PubsubQueueName(exchange)
     IN IF ok
          THEN /\ bindings' = bindings \cup {<<exq, exchange>>}
               /\ exBindings' = [exBindings EXCEPT ![exchange] = [queue |-> exq]]
               /\ calls' = [calls EXCEPT ![k].pc = "consume"]
          ELSE /\ calls' = [calls EXCEPT ![k].pc = "failed"]
               /\ UNCHANGED <<bindings, exBindings>>
  /\ UNCHANGED <<ch, queues, rpcCB, uuids, declared, brokerQueues, consumers,
                 mq, server, reqs, seen, produced, exchanges, codec>>

\* the broker answers the consume(queue, handler) of onPubsub (lines 543-545)
subscribeConsumed(k, ok) ==
  /\ k \in 1..Len(calls)
  /\ calls[k].op = "onPubsub"
  /\ calls[k].pc = "consume"
  /\ IF ok
       THEN /\ consumers' = Append(consumers,
                 [queue |-> PubsubQueueName(calls[k].name),
                  handler |-> "pubsub", call |-> k])
            /\ calls' = [calls EXCEPT ![k].pc = "done"]
       ELSE /\ calls' = [calls EXCEPT ![k].pc = "failed"]
            /\ UNCHANGED consumers
  /\ UNCHANGED <<ch, queues, rpcCB, exBindings, uuids, declared, brokerQueues,
                 mq, server, reqs, seen, produced, exchanges, bindings, codec>>

\* the broker hands the next message of a subscriber queue to one of the
\* consumers on it: the handler of that onPubsub call gets the decoded data
\* (lines 514-522)
pubsubHandler(i) ==
  /\ i \in 1..Len(consumers)
  /\ consumers[i].handler = "pubsub"
  /\ mq[consumers[i].queue] # << >>
  /\ LET msg == Head(mq[consumers[i].queue])
     IN /\ mq' = [mq EXCEPT ![consumers[i].queue] = Tail(@)]
        /\ calls' = [calls EXCEPT ![consumers[i].call].cbOk = @ + 1,
                                  ![consumers[i].call].reply = fromAMQPMessage(msg)]
  /\ UNCHANGED <<ch, queues, rpcCB, exBindings, uuids, declared, brokerQueues,
                 consumers, server, reqs, seen, produced, exchanges, bindings, codec>>

(***************************************************************************)
(* The RPC round trip: one client calling rpc on "echo", the serving       *)
(* process with the handler (err, data, reply) => reply(data), and the     *)
(* replies coming back.                                                    *)
(***************************************************************************)
\* the rpc calls the application makes: message and autoDeleteCallback
RpcInputs ==
  { [msg |-> ObjX5, ad |-> "unset"], [msg |-> ObjX5, ad |-> "false"],
    [msg |-> Arr12, ad |-> "true"], [msg |-> Undefined, ad |-> "unset"] }

Next ==
  \/ init
  \/ \E in \in RpcInputs : Len(calls) < MaxRpc /\ rpc("echo", in.msg, in.ad)
  \/ \E k \in 1..MaxCalls, ok \in BOOLEAN : rpcQueueAsserted(k, ok)
  \/ \E k \in 1..MaxCalls, ok \in BOOLEAN : rpcQueueConsumed(k, ok)
  \/ \E c \in CorrIds : deleteRpcCallback(c)
  \/ rpcHandler(RpcQueueName("echo"))
  \/ onRpc("echo", "echo", "ok")
  \/ deliverRequest
  \/ \E i \in DOMAIN reqs : reply(i)

Spec == Init /\ [][Next]_vars

(***************************************************************************)
(* The correlation table: one client calling rpc on "echo", and replies    *)
(* arriving on its reply queue in any order, any number of times, with the *)
(* correlation id of any request sent so far or with none.                 *)
(***************************************************************************)
\* a reply arrives once the one before it was handled, which loses no
\* order of arrival: the queue is first-in first-out
replyArrives(corrId) ==
  /\ mq[RpcQueueName("echo")] = << >>
  /\ foreignSend(RpcQueueName("echo"), ObjX5, corrId, NoQueue)

NextTable ==
  \/ init
  \/ \E ad \in AutoDeleteOptions : Len(calls) < MaxRpc /\ rpc("echo", ObjX5, ad)
  \/ \E k \in 1..MaxCalls, ok \in BOOLEAN : rpcQueueAsserted(k, ok)
  \/ \E k \in 1..MaxCalls, ok \in BOOLEAN : rpcQueueConsumed(k, ok)
  \/ \E c \in CorrIds : deleteRpcCallback(c)
  \/ \E c \in {NoId} \cup 1..uuids : replyArrives(c)
  \/ rpcHandler(RpcQueueName("echo"))

SpecTable == Init /\ [][NextTable]_vars

(***************************************************************************)
(* The queue cache: any pattern calls on any names, and the broker's       *)
(* answers to their declarations and subscriptions.                        *)
(***************************************************************************)
NextCache ==
  \/ init
  \/ \E q \in QueueNames : rpc(q, ObjX5, "unset")
  \/ \E q \in QueueNames : addRpcQueue(q)
  \/ \E k \in 1..MaxCalls, ok \in BOOLEAN : rpcQueueAsserted(k, ok)
  \/ \E k \in 1..MaxCalls, ok \in BOOLEAN : rpcQueueConsumed(k, ok)
  \/ \E q \in QueueNames : worker(q, ObjX5)
  \/ \E q \in QueueNames : addWorkerQueue(q)
  \/ \E k \in 1..MaxCalls, ok \in BOOLEAN : workerQueueAsserted(k, ok)

SpecCache == Init /\ [][NextCache]_vars

(***************************************************************************)
(* A sequential call sequence on the queue cache: the application makes a  *)
(* call only after every earlier call has completed.                       *)
(***************************************************************************)
\* every call made so far has completed
AllCompleted ==
  \A j \in DOMAIN calls : calls[j].pc \notin {"declare", "consume"}

NextSeq ==
  \/ init
  \/ \E q \in QueueNames : AllCompleted /\ rpc(q, ObjX5, "unset")
  \/ \E q \in QueueNames : AllCompleted /\ addRpcQueue(q)
  \/ \E k \in 1..MaxCalls, ok \in BOOLEAN : rpcQueueAsserted(k, ok)
  \/ \E k \in 1..MaxCalls, ok \in BOOLEAN : rpcQueueConsumed(k, ok)
  \/ \E q \in QueueNames : AllCompleted /\ worker(q, ObjX5)
  \/ \E q \in QueueNames : AllCompleted /\ addWorkerQueue(q)
  \/ \E k \in 1..MaxCalls, ok \in BOOLEAN : workerQueueAsserted(k, ok)

SpecSeq == Init /\ [][NextSeq]_vars

(***************************************************************************)
(* The serving process alone: requests from any producer, with or without  *)
(* replyTo and correlationId.                                              *)
(***************************************************************************)
NextServer ==
  \/ \E h \in Handlers, o \in {"ok", "consumeFailed"} : onRpc("echo", h, o)
  \/ \E m \in MsgValues \ {Undefined}, c \in {NoId, 1},
        r \in {NoQueue, RpcQueueName("echo")} : foreignSend("echo", m, c, r)
  \/ deliverRequest
  \/ \E i \in DOMAIN reqs : reply(i)

SpecServer == Init /\ [][NextServer]_vars

(***************************************************************************)
(* The codec alone: a value is given to toAMQPMessage, and the message     *)
(* carrying the payload is given to fromAMQPMessage.                       *)
(***************************************************************************)
\* the values given to toAMQPMessage
CodecValues ==
  { Undefined, Null, Num(1), Num(5), Bool(TRUE), Bool(FALSE), Str("fire"),
    Str("5"), Str(""), Cyclic, Buf("hi"), Buf(""), Arr12 }
    \cup CodecArrays
    \cup PlainObjects({Num(5), Null, Bool(TRUE), Str("fire"), Undefined}
                        \cup CodecArrays)

InitCodec ==
  /\ ch = NullCh
  /\ queues = [q \in QueueNames |-> Absent]
  /\ rpcCB = [c \in CorrIds |-> NoCB]
  /\ exBindings = [e \in ExchangeNames |-> Absent]
  /\ uuids = 0
  /\ calls = << >>
  /\ declared = [q \in AllQueues |-> 0]
  /\ brokerQueues = {}
  /\ consumers = << >>
  /\ mq = [q \in AllQueues |-> << >>]
  /\ server = [queue |-> NoQueue, handler |-> "echo"]
  /\ reqs = << >>
  /\ seen = [c \in CorrIds |-> 0]
  /\ produced = 0
  /\ exchanges = {}
  /\ bindings = {}
  /\ codec \in {[NoCodec EXCEPT !.pc = "value", !.value = v] : v \in CodecValues}

\* toAMQPMessage(value) is called
encode ==
  /\ codec.pc = "value"
  /\ LET data == toAMQPMessage(codec.value)
     IN codec' = [codec EXCEPT !.payload = data,
                               !.pc = IF data = Throw THEN "threw" ELSE "encoded"]
  /\ UNCHANGED <<ch, queues, rpcCB, exBindings, uuids, calls, declared,
                 brokerQueues, consumers, mq, server, reqs, seen, produced,
                 exchanges, bindings>>

\* fromAMQPMessage is called with the message that carries the payload
decode ==
  /\ codec.pc = "encoded"
  /\ codec' = [codec EXCEPT
       !.decoded = fromAMQPMessage(Msg(codec.payload.text, NoId, NoQueue)),
       !.pc = "decoded"]
  /\ UNCHANGED <<ch, queues, rpcCB, exBindings, uuids, calls, declared,
                 brokerQueues, consumers, mq, server, reqs, seen, produced,
                 exchanges, bindings>>

NextCodec ==
  \/ encode
  \/ decode

SpecCodec == InitCodec /\ [][NextCodec]_vars

(***************************************************************************)
(* Publish and subscribe on one client.                                    *)
(***************************************************************************)
PubsubValues == {Str("fire"), Undefined}

NextPubsub ==
  \/ init
  \/ \E e \in ExchangeNames : onPubsub(e)
  \/ \E e \in ExchangeNames, m \in PubsubValues : pubsub(e, m)
  \/ \E k \in 1..MaxCalls, ok \in BOOLEAN : exchangeAsserted(k, ok)
  \/ \E k \in 1..MaxCalls, ok \in BOOLEAN : subscribeQueueAsserted(k, ok)
  \/ \E k \in 1..MaxCalls, ok \in BOOLEAN : queueBound(k, ok)
  \/ \E k \in 1..MaxCalls, ok \in BOOLEAN : subscribeConsumed(k, ok)
  \/ \E i \in 1..MaxCalls : pubsubHandler(i)

SpecPubsub == Init /\ [][NextPubsub]_vars


(***************************************************************************)
(* Properties of the correlation table.                                    *)
(***************************************************************************)
RpcCalls == {k \in DOMAIN calls : calls[k].op = "rpc"}
\* the rpc calls that reached dorpc and so own a correlation id
Registered == {k \in RpcCalls : calls[k].corrId # NoId}

\* a step in which rpcHandler took a reply carrying an id from the queue
HandlesReply(inQ) ==
  /\ mq[inQ] # << >>
  /\ mq'[inQ] = Tail(mq[inQ])

\* C1: a reply with correlation id c reaches exactly the callback that the
\* rpc call which generated c registered: whenever a callback of an rpc call
\* is invoked, the reply at the head of the reply queue carries that call's
\* id, no other call owns that id, and no other callback is invoked; and a
\* reply whose id has an entry invokes the callback of the call owning it.
C1_ReplyReachesItsOwnCallback ==
  [][ /\ \A k \in RpcCalls :
           calls'[k].cbOk > calls[k].cbOk =>
             /\ HandlesReply(RpcQueueName(calls[k].name))
             /\ calls[k].corrId # NoId
             /\ Head(mq[RpcQueueName(calls[k].name)]).correlationId = calls[k].corrId
             /\ calls'[k].cbOk = calls[k].cbOk + 1
             /\ \A j \in RpcCalls \ {k} :
                  /\ calls[j].corrId # calls[k].corrId
                  /\ calls'[j].cbOk = calls[j].cbOk
      /\ \A k \in Registered :
           ( /\ HandlesReply(RpcQueueName(calls[k].name))
             /\ Head(mq[RpcQueueName(calls[k].name)]).correlationId = calls[k].corrId
             /\ rpcCB[calls[k].corrId] # NoCB )
           => calls'[k].cbOk = calls[k].cbOk + 1
    ]_vars

\* two requests are pending and the reply to the second arrived first
C1_Witness ==
  /\ Len(calls) >= 2
  /\ {1, 2} \subseteq Registered
  /\ rpcCB[calls[1].corrId] # NoCB
  /\ calls[1].cbOk = 0
  /\ calls[2].cbOk = 1
  /\ seen[calls[2].corrId] = 1

\* C2: for a request sent with autoDeleteCallback unset or true, once a
\* reply carrying its id was handled the entry is gone, so later replies
\* with that id find no entry, and the callback was invoked at most once:
\* exactly once unless the application had removed the entry before.
C2_AutoDeleteAfterFirstReply ==
  \A k \in Registered :
    calls[k].ad \in {"unset", "true"} =>
      /\ calls[k].cbOk <= 1
      /\ seen[calls[k].corrId] >= 1 => rpcCB[calls[k].corrId] = NoCB
      /\ calls[k].cbOk =
           IF seen[calls[k].corrId] >= 1 /\ ~calls[k].unregistered THEN 1 ELSE 0

\* a second reply with the same id was handled and did not reach the callback
C2_Witness ==
  \E k \in Registered :
    /\ calls[k].ad \in {"unset", "true"}
    /\ seen[calls[k].corrId] = 2
    /\ calls[k].cbOk = 1

\* C3: for a request sent with autoDeleteCallback = false the entry stays
\* until deleteRpcCallback removes it, and until then every reply carrying
\* its id invokes the callback: n replies, n invocations.
C3_EntryStaysWithoutAutoDelete ==
  \A k \in Registered :
    calls[k].ad = "false" =>
      IF calls[k].unregistered
        THEN /\ rpcCB[calls[k].corrId] = NoCB
             /\ calls[k].cbOk <= seen[calls[k].corrId]
        ELSE /\ rpcCB[calls[k].corrId] = [cb |-> k, autoDelete |-> FALSE]
             /\ calls[k].cbOk = seen[calls[k].corrId]

\* two replies with the id of such a request were handled, both invoked it
C3_Witness ==
  \E k \in Registered :
    /\ calls[k].ad = "false"
    /\ ~calls[k].unregistered
    /\ seen[calls[k].corrId] = 2
    /\ calls[k].cbOk = 2

\* C4: when the publish of an rpc request fails, its correlation entry is
\* removed and the caller's callback gets the error.
C4_FailedPublishUnregisters ==
  \A k \in RpcCalls :
    calls[k].pc = "threw" =>
      /\ rpcCB[calls[k].corrId] = NoCB
      /\ calls[k].cbErr = 1

(***************************************************************************)
(* Properties of the queue cache.                                          *)
(***************************************************************************)
CallsOn(name) == {k \in DOMAIN calls : calls[k].name = name}
ConsumersOn(queue) == {i \in DOMAIN consumers : consumers[i].queue = queue}

\* every call made for this name is an rpc call, each made after the setup
\* of the one before it had finished
SequentialRpcOnly(name) ==
  \A k \in CallsOn(name) : calls[k].op = "rpc" /\ ~calls[k].overlapped

\* addRpcQueue reported success to an rpc call for this name: dorpc ran
SetupReported(name) ==
  \E k \in CallsOn(name) : calls[k].op = "rpc" /\ calls[k].pc \in {"sent", "threw"}

\* C5: after any sequence of rpc calls for one name, each made after the
\* setup of the one before it finished and telling its caller that the
\* reply queue is set up, exactly one reply queue has been declared for the
\* name and exactly one consumer is subscribed on it.
C5_OneReplyQueueOneConsumer ==
  \A name \in QueueNames :
    (SequentialRpcOnly(name) /\ SetupReported(name) /\ ~SetupInFlight(name)) =>
      /\ declared[RpcQueueName(name)] = 1
      /\ Cardinality(ConsumersOn(RpcQueueName(name))) = 1

\* C9: every publish that worker(queueName, ...) performs comes after a
\* declaration of the queue named queueName that the broker granted to this
\* client.
C9_WorkerPublishesToDeclaredQueue ==
  \A k \in DOMAIN calls :
    (calls[k].op = "worker" /\ calls[k].published) => calls[k].declaredAtSend

(***************************************************************************)
(* Properties of the serving side.                                         *)
(***************************************************************************)
\* the request carries both a replyTo address and a correlation id
Answerable(r) == r.msg.replyTo # NoQueue /\ r.msg.correlationId # NoId

\* C7: a request delivered to the onRpc handler is acknowledged at most once
\* however often the handler calls replyFn, and once the handler has called
\* replyFn for a request that carries a replyTo address and a correlation
\* id, the response has been published and the request acknowledged.
C7_ReplyPublishesThenAcksOnce ==
  \A i \in DOMAIN reqs :
    /\ reqs[i].acks <= 1
    /\ (Answerable(reqs[i]) /\ reqs[i].replyCalls >= 1) =>
         /\ reqs[i].sent >= 1
         /\ reqs[i].acks = 1

\* C8: a request without a replyTo address or without a correlation id is
\* still decoded and handed to the handler, and replyFn does nothing for
\* it: no publish, no acknowledgement, however often it is called.
C8_NoAddressNoReply ==
  \A i \in DOMAIN reqs :
    ~Answerable(reqs[i]) =>
      /\ reqs[i].inData = fromAMQPMessage(reqs[i].msg)
      /\ reqs[i].sent = 0
      /\ reqs[i].acks = 0
      /\ ~reqs[i].ackd
      /\ reqs[i].threw = 0

\* the handler of a request that has a correlation id and no replyTo
\* address called replyFn
C8_Witness ==
  \E i \in DOMAIN reqs :
    /\ reqs[i].msg.replyTo = NoQueue
    /\ reqs[i].msg.correlationId # NoId
    /\ reqs[i].inData = ObjX5
    /\ reqs[i].replyCalls >= 1

(***************************************************************************)
(* Properties of the round trip.                                           *)
(***************************************************************************)
\* C10: with a server whose handler replies with the data it received, the
\* callback of rpc(q, v, cb) is invoked with no error and a reply equal to
\* v: whenever the callback has been given a reply, it was given no error
\* and the reply is v.
C10_EchoReturnsTheRequest ==
  \A k \in RpcCalls :
    calls[k].cbOk >= 1 =>
      /\ calls[k].cbErr = 0
      /\ calls[k].reply = calls[k].msg

(***************************************************************************)
(* Properties of publish and subscribe.                                    *)
(***************************************************************************)
\* the onPubsub calls for the exchange whose setup is complete
Subscribed(exchange) ==
  {k \in DOMAIN calls :
     calls[k].op = "onPubsub" /\ calls[k].name = exchange /\ calls[k].pc = "done"}

\* C6: two onPubsub calls for the same exchange, the second made after the
\* first was set up, leave exactly one queue bound to the exchange and
\* exactly one consumer on that queue.
C6_OneBindingOneConsumer ==
  \A e \in ExchangeNames :
    ( /\ Cardinality(Subscribed(e)) = 2
      /\ \A k \in Subscribed(e) : ~calls[k].overlapped ) =>
      /\ Cardinality({b \in bindings : b[2] = e}) = 1
      /\ Cardinality(ConsumersOn(PubsubQueueName(e))) = 1

(***************************************************************************)
(* Properties of error propagation.                                        *)
(***************************************************************************)
\* a broker step of the call's setup was answered with an error
SetupFailed(k) == calls[k].pc \in {"lost", "failed"}

\* C11: when the declaration or the subscription of the reply queue fails
\* during rpc(queue, msg, fn), fn is invoked exactly once with the error, no
\* request is published and no correlation entry is registered.
C11_SetupFailureReachesCallback ==
  \A k \in RpcCalls :
    SetupFailed(k) =>
      /\ calls[k].cbErr = 1
      /\ calls[k].cbOk = 0
      /\ ~calls[k].published
      /\ calls[k].corrId = NoId

\* the pubsub calls whose exchange declaration was answered
PubsubAnswered ==
  {k \in DOMAIN calls : calls[k].op = "pubsub" /\ calls[k].pc # "assertExchange"}

\* C12: each pubsub call invokes fn exactly once: with no error after the
\* message was published when the exchange declaration succeeded, with the
\* error and without publishing when the declaration failed.
C12_PubsubCallsBackOnce ==
  \A k \in PubsubAnswered :
    IF calls[k].pc = "failed"
      THEN calls[k].cbErr = 1 /\ calls[k].cbOk = 0 /\ ~calls[k].published
      ELSE calls[k].cbOk = 1 /\ calls[k].cbErr = 0 /\ calls[k].published

(***************************************************************************)
(* Properties of the codec.                                                *)
(***************************************************************************)
\* C13: toAMQPMessage produces a byte payload and raises no error for every
\* input value.
C13_EncodeNeverRaises ==
  /\ codec.pc # "threw"
  /\ codec.pc \in {"encoded", "decoded"} => codec.payload.t = "buffer"

\* v is built only from JSON-representable parts
RECURSIVE JSONRepresentable(_)
JSONRepresentable(v) ==
  CASE v.t \in {"null", "number", "boolean", "string"} -> TRUE
    [] v.t = "array" -> \A i \in 1..Len(v.items) : JSONRepresentable(v.items[i])
    [] v.t = "object" -> \A i \in 1..Len(v.kv) : JSONRepresentable(v.kv[i].v)
    [] OTHER -> FALSE

\* C14: for every value v built only from JSON-representable parts,
\* fromAMQPMessage of the message carrying toAMQPMessage(v) is equal to v.
C14_DecodeInvertsEncode ==
  JSONRepresentable(codec.value) =>
    /\ codec.pc # "threw"
    /\ codec.pc = "decoded" => codec.decoded = codec.value

\* C15: a Buffer given to toAMQPMessage comes back as a Buffer with exactly
\* the same bytes.
C15_BufferPassesThrough ==
  (codec.value.t = "buffer" /\ codec.pc \in {"encoded", "threw", "decoded"}) =>
    codec.payload = codec.value

(***************************************************************************)
(* Properties of overlapping and repeated setups.                          *)
(***************************************************************************)
\* the rpc calls made while the setup (declare, subscribe) of an earlier
\* call for the same name had not completed
Overlapping == {k \in RpcCalls : calls[k].overlapped}

\* C16: an rpc call that starts before the setup of an earlier call for the
\* same name has completed finds no usable cache entry and performs its own
\* setup: once it has sent its request, the reply queue has been declared
\* twice and carries two consumers.
C16_OverlappingSetupsBothRun ==
  \A k \in Overlapping :
    /\ ~calls[k].reused
    /\ calls[k].pc = "sent" =>
         /\ declared[RpcQueueName(calls[k].name)] >= 2
         /\ Cardinality(ConsumersOn(RpcQueueName(calls[k].name))) >= 2

\* an earlier call of this pattern for this name declared its queue, cached
\* the descriptor and completed
FirstCompleted(op, name) ==
  \E j \in DOMAIN calls :
    /\ calls[j].op = op
    /\ calls[j].name = name
    /\ calls[j].pc \in {"sent", "threw"}

\* every call made for the name so far is of this pattern
SinglePattern(op, name) ==
  \A j \in DOMAIN calls : calls[j].name = name => calls[j].op = op

\* the queue a pattern declares for a name
QueueOf(op, name) == IF op = "rpc" THEN RpcQueueName(name) ELSE name

\* the pattern's queue was declared once and its descriptor is cached
DeclaredOnce(op, name) ==
  /\ declared[QueueOf(op, name)] = 1
  /\ queues[name] = [queue |-> QueueOf(op, name)]

\* C17: in a sequential call sequence of one pattern (worker or rpc) for a
\* name, the first call declares the queue once and caches its descriptor;
\* every later call, made after the first completed, finds that descriptor
\* and issues no further declaration.
C17_LaterCallsReuseTheCache ==
  [][ \A op \in {"worker", "rpc"}, name \in QueueNames :
        /\ (SinglePattern(op, name) /\ FirstCompleted(op, name)) =>
             DeclaredOnce(op, name)
        /\ ( /\ SinglePattern(op, name)
             /\ FirstCompleted(op, name)
             /\ Len(calls') = Len(calls) + 1
             /\ calls'[Len(calls')].op = op
             /\ calls'[Len(calls')].name = name ) =>
               /\ calls'[Len(calls')].reused
               /\ calls'[Len(calls')].pc # "declare"
               /\ DeclaredOnce(op, name)' ]_vars

\* a second rpc call and a second worker call each reused the descriptor the
\* first one cached
C17_Witness ==
  \E j, k \in DOMAIN calls :
    /\ j < k
    /\ calls[j].op = calls[k].op
    /\ calls[j].op \in {"worker", "rpc"}
    /\ calls[j].name = calls[k].name
    /\ SinglePattern(calls[j].op, calls[j].name)
    /\ ~calls[j].reused
    /\ calls[j].pc = "sent"
    /\ calls[k].reused
    /\ calls[k].pc = "sent"
    /\ DeclaredOnce(calls[j].op, calls[j].name)

(***************************************************************************)
(* Properties of replies that belong to no pending request.                *)
(***************************************************************************)
\* the reply at the head of the reply queue has no correlation id, or an id
\* with no entry in the correlation table
UnknownReply(inQ) ==
  /\ mq[inQ] # << >>
  /\ \/ Head(mq[inQ]).correlationId = NoId
     \/ rpcCB[Head(mq[inQ]).correlationId] = NoCB

\* C18: when rpcHandler takes a reply whose correlation id has no entry, or
\* that has no correlation id, it invokes no callback and leaves the
\* correlation table, the queue cache and the exchange bindings unchanged.
C18_UnknownReplyChangesNothing ==
  [][ \A q \in QueueNames :
        (UnknownReply(RpcQueueName(q)) /\ HandlesReply(RpcQueueName(q))) =>
          /\ \A k \in DOMAIN calls :
               /\ calls'[k].cbOk = calls[k].cbOk
               /\ calls'[k].cbErr = calls[k].cbErr
          /\ rpcCB' = rpcCB
          /\ queues' = queues
          /\ exBindings' = exBindings ]_vars

\* a reply to an unregistered request and a reply without an id were both
\* handled, while another request was pending, and reached no callback
C18_Witness ==
  \E k, j \in Registered :
    /\ k # j
    /\ calls[k].unregistered
    /\ calls[k].cbOk = 0
    /\ seen[calls[k].corrId] = 1
    /\ rpcCB[calls[j].corrId] # NoCB
    /\ calls[j].cbOk = 0
    /\ seen[calls[j].corrId] = 0
    /\ produced = 2
    /\ mq[RpcQueueName("echo")] = << >>

(***************************************************************************)
(* Properties of the reply-queue setup.                                    *)
(***************************************************************************)
\* addRpcQueue reported success to the call: its callback got a descriptor
\* and no error (for rpc, dorpc ran)
ReportedSuccess(k) ==
  \/ calls[k].op = "addRpcQueue" /\ calls[k].cbOk >= 1
  \/ calls[k].op = "rpc" /\ calls[k].pc \in {"sent", "threw"}

\* C19: addRpcQueue reports success for a name only when a consumer running
\* rpcHandler is subscribed on the name's reply queue, and the cached
\* descriptor that triggers the reuse path is never present while the
\* subscription is pending or after it has failed.
C19_SuccessMeansSubscribed ==
  /\ \A k \in DOMAIN calls :
       ReportedSuccess(k) =>
         Cardinality(ConsumersOn(RpcQueueName(calls[k].name))) >= 1
  /\ \A q \in QueueNames :
       CacheHit(q) => Cardinality(ConsumersOn(RpcQueueName(q))) >= 1

(***************************************************************************)
(* Properties of the flow of requests under prefetch 1.                    *)
(***************************************************************************)
\* the requests whose handler has called replyFn
Replied == {i \in DOMAIN reqs : reqs[i].replyCalls >= 1}

\* C20: with one unacknowledged message allowed and a handler that calls
\* replyFn for every request, every delivered request is acknowledged, with
\* or without a replyTo address and a correlation id, so that the requests
\* queued behind it are delivered: once the handler has called replyFn for a
\* request, the request is acknowledged and no longer holds the channel.
C20_RepliedRequestsAreAcked ==
  \A i \in Replied :
    /\ reqs[i].acks = 1
    /\ i \notin Unacked

=============================================================================
